---- MODULE Spec2Model ----
(***************************************************************************)
(* Model of the base62 token codec of marksalpeter/token (later design,   *)
(* src/Token.go lines 141-284, errors in src/_test.go lines 168-187).     *)
(*                                                                         *)
(* A Token is a uint64.  TLC's integers are 32 bits wide, so a uint64 (and *)
(* the float64 values math.Pow produces) is a little-endian sequence of    *)
(* 16-bit limbs without trailing zero limbs; <<>> is the number 0.  A byte *)
(* is its ASCII code and a string / []byte is a sequence of bytes.         *)
(***************************************************************************)
EXTENDS Integers, Sequences, FiniteSets, TLC

(***************************************************************************)
(* Bounds of the model.                                                    *)
(***************************************************************************)
\* sampled values lie within MaxDelta of a power of 62 or of 2^64
MaxDelta == 1
\* input strings have up to MaxTokenLength + MaxExtraLen bytes
MaxExtraLen == 1

(***************************************************************************)
(* Program constants.                                                      *)
(***************************************************************************)
\* the alphabet in ASCII order, "0-9A-Za-z"
Base62Ascii == << 48, 49, 50, 51, 52, 53, 54, 55, 56, 57,
                 65, 66, 67, 68, 69, 70, 71, 72, 73, 74, 75, 76, 77,
                 78, 79, 80, 81, 82, 83, 84, 85, 86, 87, 88, 89, 90,
                 97, 98, 99, 100, 101, 102, 103, 104, 105, 106, 107, 108, 109,
                 110, 111, 112, 113, 114, 115, 116, 117, 118, 119, 120, 121, 122 >>
\* Base62 = "0123456789abcdefghijklmnopqrstuvwxyzABCDEFGHIJKLMNOPQRSTUVWXYZ"
Base62 == << 48, 49, 50, 51, 52, 53, 54, 55, 56, 57,
            97, 98, 99, 100, 101, 102, 103, 104, 105, 106, 107, 108, 109,
            110, 111, 112, 113, 114, 115, 116, 117, 118, 119, 120, 121, 122,
            65, 66, 67, 68, 69, 70, 71, 72, 73, 74, 75, 76, 77,
            78, 79, 80, 81, 82, 83, 84, 85, 86, 87, 88, 89, 90 >>
\* MAX_TOKEN_LENGTH of the earlier design
MaxTokenLengthV1 == 11
MaxTokenLength == 10
MinTokenLength == 1
DefaultTokenLength == 9
base62Len == Len(Base62)
\* type Token uint64
UintBits == 64
\* float64 carries 53 significant bits
MantissaBits == 53

ErrTokenTooSmall == "the base62 token is smaller than MinTokenLength"
ErrTokenTooBig == "the base62 token is larger than MaxTokenLength"
ErrInvalidCharacter == "there was a non base62 character in the token"
Nil == "nil"

(***************************************************************************)
(* Unsigned arithmetic on limb sequences.                                  *)
(***************************************************************************)
LimbBits == 16
LimbBase == 2^LimbBits

RECURSIVE Norm(_)
Norm(a) == IF a = <<>> THEN <<>>
           ELSE IF a[Len(a)] = 0 THEN Norm(SubSeq(a, 1, Len(a) - 1))
           ELSE a

RECURSIVE Big(_)
Big(n) == IF n = 0 THEN <<>> ELSE <<n % LimbBase>> \o Big(n \div LimbBase)

Zero == <<>>
One == Big(1)

RECURSIVE MulCarry(_, _, _)
MulCarry(a, k, c) ==
    IF a = <<>> THEN Big(c)
    ELSE LET p == Head(a) * k + c
         IN  <<p % LimbBase>> \o MulCarry(Tail(a), k, p \div LimbBase)

\* a * k for a small k
MulSmall(a, k) == Norm(MulCarry(a, k, 0))

RECURSIVE AddCarry(_, _, _)
AddCarry(a, b, c) ==
    IF a = <<>> /\ b = <<>> THEN Big(c)
    ELSE LET x == IF a = <<>> THEN 0 ELSE Head(a)
             y == IF b = <<>> THEN 0 ELSE Head(b)
             s == x + y + c
         IN  <<s % LimbBase>>
               \o AddCarry(IF a = <<>> THEN <<>> ELSE Tail(a),
                           IF b = <<>> THEN <<>> ELSE Tail(b),
                           s \div LimbBase)

Add(a, b) == Norm(AddCarry(a, b, 0))

\* a - 1 for a > 0
RECURSIVE Borrow(_)
Borrow(a) == IF Head(a) > 0 THEN <<Head(a) - 1>> \o Tail(a)
             ELSE <<LimbBase - 1>> \o Borrow(Tail(a))

Sub1(a) == Norm(Borrow(a))

\* quotient and remainder of a by a small k
RECURSIVE DivMod(_, _)
DivMod(a, k) ==
    IF a = <<>> THEN [q |-> <<>>, r |-> 0]
    ELSE LET hi  == DivMod(Tail(a), k)
             cur == hi.r * LimbBase + Head(a)
         IN  [q |-> Norm(<<cur \div k>> \o hi.q), r |-> cur % k]

RECURSIVE LessFrom(_, _, _)
LessFrom(a, b, i) ==
    IF i = 0 THEN FALSE
    ELSE IF a[i] # b[i] THEN a[i] < b[i]
    ELSE LessFrom(a, b, i - 1)

Less(a, b) == IF Len(a) # Len(b) THEN Len(a) < Len(b) ELSE LessFrom(a, b, Len(a))
LessEq(a, b) == a = b \/ Less(a, b)

\* k^n, exactly
RECURSIVE PowBig(_, _)
PowBig(k, n) == IF n = 0 THEN One ELSE MulSmall(PowBig(k, n - 1), k)

\* the low UintBits bits of a: what a uint64 keeps of a result
Wrap64(a) == Norm(SubSeq(a, 1, IF Len(a) < UintBits \div LimbBits THEN Len(a)
                                ELSE UintBits \div LimbBits))

\* 2^n
RECURSIVE ZeroLimbs(_)
ZeroLimbs(k) == IF k = 0 THEN <<>> ELSE <<0>> \o ZeroLimbs(k - 1)

TwoTo(n) == ZeroLimbs(n \div LimbBits) \o <<2^(n % LimbBits)>>

TwoTo64 == TwoTo(UintBits)
MaxUint64 == Sub1(TwoTo64)
MaxInt64 == Sub1(TwoTo(UintBits - 1))

\* a - 1 in uint64: 0 - 1 wraps to 2^64 - 1
Dec64(a) == IF a = <<>> THEN MaxUint64 ELSE Sub1(a)

\* number of significant bits
RECURSIVE SmallBitLen(_)
SmallBitLen(n) == IF n = 0 THEN 0 ELSE 1 + SmallBitLen(n \div 2)

BitLen(a) == IF a = <<>> THEN 0
             ELSE (Len(a) - 1) * LimbBits + SmallBitLen(a[Len(a)])

(***************************************************************************)
(* float64: an integer value keeps its MantissaBits leading bits, rounded  *)
(* to nearest, ties to even.                                               *)
(***************************************************************************)
\* a split at bit n: a = q * 2^n + low
Split(a, n) ==
    LET k == n \div LimbBits
        d == DivMod(SubSeq(a, k + 1, Len(a)), 2^(n % LimbBits))
    IN  [q |-> d.q, low |-> Norm(SubSeq(a, 1, k) \o <<d.r>>)]

\* a * 2^n
ShiftLeft(a, n) ==
    IF a = <<>> THEN <<>>
    ELSE ZeroLimbs(n \div LimbBits) \o MulSmall(a, 2^(n % LimbBits))

Float64(a) ==
    IF BitLen(a) <= MantissaBits THEN a
    ELSE LET n    == BitLen(a) - MantissaBits
             s    == Split(a, n)
             half == TwoTo(n - 1)
             up   == Less(half, s.low) \/ (s.low = half /\ DivMod(s.q, 2).r = 1)
         IN  ShiftLeft(IF up THEN Add(s.q, One) ELSE s.q, n)

\* math.Pow(float64(base62Len), float64(power))
Pow(power) == Float64(PowBig(base62Len, power))


\* uint64(f) for a non-negative integer-valued float64 f: the value itself
\* when it fits, and an implementation-dependent result when it does not
\* (0x8000000000000000 on amd64, saturation on arm64, 0 elsewhere)
Uint64Outcomes(f) ==
    IF Less(f, TwoTo64) THEN {f}
    ELSE {TwoTo(UintBits - 1), MaxUint64, Zero}

(***************************************************************************)
(* The codec.                                                              *)
(***************************************************************************)
\* IndexByte counting positions from one
IndexByteFromOne(chars, c) ==
    IF \E i \in 1..Len(chars) : chars[i] = c
    THEN CHOOSE i \in 1..Len(chars) :
             chars[i] = c /\ \A j \in 1..(i - 1) : chars[j] # c
    ELSE -1

\* bytes.IndexByte(chars, c): index of the first c in chars, or -1
IndexByte(chars, c) ==
    IF \E i \in 1..Len(chars) : chars[i] = c
    THEN (CHOOSE i \in 1..Len(chars) :
             chars[i] = c /\ \A j \in 1..(i - 1) : chars[j] # c) - 1
    ELSE -1

\* the loop of UnmarshalText from byte idx + 1 on, with the accumulated
\* number; yields the outcomes [number, err] the loop can end with
RECURSIVE DecodeLoop(_, _, _)
DecodeLoop(data, idx, number) ==
    IF idx = Len(data) THEN {[number |-> number, err |-> Nil]}
    ELSE LET power == Len(data) - (idx + 1)
             index == IndexByte(Base62, data[idx + 1])
         IN  IF index < 0
             THEN {[number |-> number, err |-> ErrInvalidCharacter]}
             ELSE UNION { DecodeLoop(data, idx + 1,
                              Wrap64(Add(number, Wrap64(MulSmall(p, index)))))
                          : p \in Uint64Outcomes(Pow(power)) }

\* UnmarshalText looking for a foreign byte before it looks at the length
UnmarshalTextCharsFirst(t, data) ==
    IF \E i \in 1..Len(data) : IndexByte(Base62, data[i]) < 0
    THEN {[t |-> t, err |-> ErrInvalidCharacter]}
    ELSE IF Len(data) > MaxTokenLength THEN {[t |-> t, err |-> ErrTokenTooBig]}
    ELSE IF Len(data) < MinTokenLength THEN {[t |-> t, err |-> ErrTokenTooSmall]}
    ELSE { [t |-> r.number, err |-> r.err] : r \in DecodeLoop(data, 0, Zero) }

\* UnmarshalText refusing the strings of MinTokenLength bytes too
UnmarshalTextMinExclusive(t, data) ==
    IF Len(data) > MaxTokenLength THEN {[t |-> t, err |-> ErrTokenTooBig]}
    ELSE IF Len(data) <= MinTokenLength THEN {[t |-> t, err |-> ErrTokenTooSmall]}
    ELSE { [t |-> IF r.err = Nil THEN r.number ELSE t, err |-> r.err]
           : r \in DecodeLoop(data, 0, Zero) }

\* UnmarshalText accumulating in the receiver instead of a local number
UnmarshalTextPartial(t, data) ==
    IF Len(data) > MaxTokenLength THEN {[t |-> t, err |-> ErrTokenTooBig]}
    ELSE IF Len(data) < MinTokenLength THEN {[t |-> t, err |-> ErrTokenTooSmall]}
    ELSE { [t |-> r.number, err |-> r.err] : r \in DecodeLoop(data, 0, Zero) }

\* (t *Token) UnmarshalText(data): the outcomes [t, err], t the receiver
\* after the call
UnmarshalText(t, data) ==
    IF Len(data) > MaxTokenLength THEN {[t |-> t, err |-> ErrTokenTooBig]}
    ELSE IF Len(data) < MinTokenLength THEN {[t |-> t, err |-> ErrTokenTooSmall]}
    ELSE { [t |-> IF r.err = Nil THEN r.number ELSE t, err |-> r.err]
           : r \in DecodeLoop(data, 0, Zero) }

\* the division loop of MarshalText: digits least significant first
RECURSIVE Digits(_)
Digits(number) ==
    IF number = Zero THEN <<>>
    ELSE LET d == DivMod(number, base62Len)
         IN  <<Base62[d.r + 1]>> \o Digits(d.q)

\* the swap loop of MarshalText
RECURSIVE Reverse(_)
Reverse(chars) == IF chars = <<>> THEN <<>>
                  ELSE Reverse(Tail(chars)) \o <<Head(chars)>>

\* MarshalText without the swap loop
MarshalTextUnreversed(t) == IF t = Zero THEN <<>> ELSE Digits(t)

\* MarshalText keeping only the MaxTokenLength lowest digits
MarshalTextCapped(t) ==
    LET chars == IF t = Zero THEN <<>> ELSE Reverse(Digits(t))
    IN  IF Len(chars) > MaxTokenLength
        THEN SubSeq(chars, Len(chars) - MaxTokenLength + 1, Len(chars))
        ELSE chars

\* MarshalText writing the digit "0" for the token 0
MarshalTextZeroDigit(t) == IF t = Zero THEN <<Base62[1]>> ELSE Reverse(Digits(t))

\* (t Token) MarshalText(): the bytes returned (the error is always nil)
MarshalText(t) == IF t = Zero THEN <<>> ELSE Reverse(Digits(t))

\* (t Token) Encode()
Encode(t) == MarshalText(t)

\* Decode(token): the outcomes [t, err]
Decode(token) == UnmarshalText(Zero, token)

\* maxHashInt raising to length + 1
maxHashIntOffByOne(length) ==
    IF length + 1 < 0 THEN {Zero}
    ELSE LET pow == Pow(length + 1)
             top == Float64(MaxUint64)
         IN  Uint64Outcomes(IF Less(pow, top) THEN pow ELSE top)

\* maxHashInt(length): the values the conversion to uint64 can produce
maxHashInt(length) ==
    IF length < 0 THEN {Zero}
    ELSE LET pow == Pow(length)
             top == Float64(MaxUint64)
         IN  Uint64Outcomes(IF Less(pow, top) THEN pow ELSE top)


\* max & math.MaxInt64
And63(max) ==
    IF Len(max) = UintBits \div LimbBits
    THEN Norm(SubSeq(max, 1, Len(max) - 1) \o <<max[Len(max)] % (LimbBase \div 2)>>)
    ELSE max

(***************************************************************************)
(* The values and strings the callers of the package supply.               *)
(***************************************************************************)
Pow62 == [k \in 0..(MaxTokenLength + 1) |-> PowBig(base62Len, k)]

RECURSIVE SubSmall(_, _)
SubSmall(a, d) == IF d = 0 THEN a ELSE SubSmall(Sub1(a), d - 1)

\* the numbers within MaxDelta of p
Near(p) == {Add(p, Big(d)) : d \in 0..MaxDelta}
             \cup {SubSmall(p, d) : d \in {e \in 1..MaxDelta : LessEq(Big(e), p)}}

\* the README's example token, 2751173559858
ExampleToken == <<1586, 36537, 640>>
\* its encoding, "Mr1NSSu"
ExampleText == <<77, 114, 49, 78, 83, 83, 117>>

\* tokens whose leading digit is the first lowercase or the first uppercase
\* symbol: "a", "A", "a000000000", "A000000000"
LetterValues ==
    {MulSmall(Pow62[k], IndexByte(Base62, c)) : k \in {0, MaxTokenLength - 1}, c \in {97, 65}}

\* the uint64 values a token is converted or drawn from
Values ==
    {v \in UNION ({Near(Pow62[k]) : k \in 0..MaxTokenLength} \cup {Near(TwoTo64)}) :
        Less(v, TwoTo64)}
      \cup {Zero, ExampleToken} \cup LetterValues

RECURSIVE Fill(_, _)
Fill(c, n) == IF n = 0 THEN <<>> ELSE <<c>> \o Fill(c, n - 1)

\* "0", "Z"
FillBytes == {48, 90}
\* "1", " "
OddBytes == {49, 32}

MaxDataLen == MaxTokenLength + MaxExtraLen

\* `s p a c e`, the oversized string and `` of the tests
TestStrings ==
    { <<115, 32, 112, 32, 97, 32, 99, 32, 101>>,
      << 115, 102, 110, 97, 108, 115, 100, 97, 115, 100, 107, 97, 115, 100, 110, 97, 101, 114, 108, 97, 114, 97,
         107, 115, 102, 110, 109, 97, 115, 108, 114, 97, 115, 100, 97, 115, 97, 100, 115, 97, 100, 97, 115 >>,
      <<>>, ExampleText }

\* the strings handed to Decode and UnmarshalText: runs of one byte with the
\* first or the last byte replaced, and the strings of the tests
Inputs ==
    {Fill(c, n) : c \in FillBytes, n \in 0..MaxDataLen}
      \cup UNION { { [Fill(c, n) EXCEPT ![p] = d] : p \in {1, n}, d \in OddBytes }
                   : c \in FillBytes, n \in 1..MaxDataLen }
      \cup TestStrings

\* the strings handed to UnmarshalText with a receiver that holds a token:
\* the shortest and the oversized inputs, and the strings of the tests
ReceiverInputs ==
    {s \in Inputs : Len(s) <= MinTokenLength + MaxExtraLen \/ Len(s) > MaxTokenLength}
      \cup TestStrings

\* the variadic tokenLength arguments handed to New
LengthArgs ==
    {<<>>} \cup {<<n>> : n \in (MinTokenLength - 1 - MaxDelta)..(MaxTokenLength + 1 + MaxDelta)}

\* rand.Int63n(n): panics unless n > 0, else some number in [0, n)
Int63n(n) ==
    IF n = Zero THEN {[panic |-> "invalid argument to Int63n", t |-> Zero]}
    ELSE {[panic |-> Nil, t |-> v] : v \in {w \in Values : Less(w, n)}}

\* New without the check against MaxTokenLength
NewNoUpperCheck(tokenLength) ==
    LET Draw(maxes) == UNION {Int63n(And63(max)) : max \in maxes}
    IN  IF tokenLength = <<>> THEN Draw(maxHashInt(DefaultTokenLength))
        ELSE IF tokenLength[1] < MinTokenLength
             THEN {[panic |-> ErrTokenTooSmall, t |-> Zero]}
        ELSE Draw(maxHashInt(tokenLength[1]))

\* New taking MaxTokenLength when no length is given
NewDefaultMax(tokenLength) ==
    LET Draw(maxes) == UNION {Int63n(And63(max)) : max \in maxes}
    IN  IF tokenLength = <<>> THEN Draw(maxHashInt(MaxTokenLength))
        ELSE IF tokenLength[1] < MinTokenLength
             THEN {[panic |-> ErrTokenTooSmall, t |-> Zero]}
        ELSE IF tokenLength[1] > MaxTokenLength
             THEN {[panic |-> ErrTokenTooBig, t |-> Zero]}
        ELSE Draw(maxHashInt(tokenLength[1]))

\* New(tokenLength ...int): the outcomes [panic, t]; panic is Nil when New
\* returns t
New(tokenLength) ==
    LET Draw(maxes) == UNION {Int63n(And63(max)) : max \in maxes}
    IN  IF tokenLength = <<>> THEN Draw(maxHashInt(DefaultTokenLength))
        ELSE IF tokenLength[1] < MinTokenLength
             THEN {[panic |-> ErrTokenTooSmall, t |-> Zero]}
        ELSE IF tokenLength[1] > MaxTokenLength
             THEN {[panic |-> ErrTokenTooBig, t |-> Zero]}
        ELSE Draw(maxHashInt(tokenLength[1]))

(***************************************************************************)
(* A caller holding one Token.  Beside the token the state records the     *)
(* last call: its arguments and what it returned.                          *)
(***************************************************************************)
VARIABLES
    t,            \* the caller's Token
    text,         \* the string the last call took or returned, "" if none
    err,          \* the error the last call returned, Nil if none
    tokenLength,  \* the arguments of the last call, if it was New
    panicked,     \* the value the last call panicked with, Nil if it returned
    op,           \* the last call
    took          \* the calls whose result the last call took, latest first

vars == <<t, text, err, tokenLength, panicked, op, took>>

Init ==
    /\ t = Zero
    /\ text = <<>>
    /\ err = Nil
    /\ tokenLength = <<>>
    /\ panicked = Nil
    /\ op = "init"
    /\ took = <<>>

\* t = Token(v): the conversion of a uint64
ConvertToken(v) ==
    /\ t' = v
    /\ text' = <<>>
    /\ err' = Nil
    /\ tokenLength' = <<>>
    /\ panicked' = Nil
    /\ op' = "Token"
    /\ took' = <<>>

\* t = New(args...), or the panic of New recovered by the caller
CallNew(args) ==
    \E r \in New(args) :
        /\ t' = IF r.panic = Nil THEN r.t ELSE t
        /\ text' = <<>>
        /\ err' = Nil
        /\ tokenLength' = args
        /\ panicked' = r.panic
        /\ op' = "New"
        /\ took' = <<>>

\* text = t.Encode()
CallEncode ==
    /\ text' = Encode(t)
    /\ err' = Nil
    /\ tokenLength' = <<>>
    /\ panicked' = Nil
    /\ op' = "Encode"
    /\ took' = IF err = Nil /\ panicked = Nil /\ op \in {"Token", "New", "Decode", "UnmarshalText"}
               THEN <<op>> ELSE <<>>
    /\ UNCHANGED t

\* t, err = Decode(s)
CallDecode(s) ==
    \E r \in Decode(s) :
        /\ t' = r.t
        /\ text' = s
        /\ err' = r.err
        /\ tokenLength' = <<>>
        /\ panicked' = Nil
        /\ op' = "Decode"
        /\ took' = IF op = "Encode" /\ s = text THEN <<op>> \o took ELSE <<>>

\* err = (&t).UnmarshalText(s)
CallUnmarshalText(s) ==
    \E r \in UnmarshalText(t, s) :
        /\ t' = r.t
        /\ text' = s
        /\ err' = r.err
        /\ tokenLength' = <<>>
        /\ panicked' = Nil
        /\ op' = "UnmarshalText"
        /\ took' = IF op = "Encode" /\ s = text THEN <<op>> \o took ELSE <<>>

\* the string just decoded with a "0" put in front of it
ZeroPrefixed ==
    IF op = "Decode" /\ Len(text) < MaxDataLen THEN {<<Base62[1]>> \o text} ELSE {}

Next ==
    \/ \E v \in Values : ConvertToken(v)
    \/ \E args \in LengthArgs : CallNew(args)
    \/ CallEncode
    \/ \E s \in Inputs \cup {text} \cup ZeroPrefixed : CallDecode(s)
    \/ \E s \in ReceiverInputs \cup {text} : CallUnmarshalText(s)

Spec == Init /\ [][Next]_vars

(***************************************************************************)
(* Vocabulary of the properties.                                           *)
(***************************************************************************)
\* the 62 symbols: "0".."9", "a".."z", "A".."Z"
Alphabet62 == (48..57) \cup (97..122) \cup (65..90)

\* the value of a symbol: its place in "0-9a-zA-Z"
DigitValue(c) == IF c <= 57 THEN c - 48 ELSE IF c >= 97 THEN c - 87 ELSE c - 29

\* the number a string of symbols denotes in base 62, most significant
\* digit first, without any wraparound
RECURSIVE NumeralValue(_)
NumeralValue(s) ==
    IF s = <<>> THEN Zero
    ELSE Add(MulSmall(NumeralValue(SubSeq(s, 1, Len(s) - 1)), 62),
             Big(DigitValue(s[Len(s)])))

AllSymbols(s) == \A i \in 1..Len(s) : s[i] \in Alphabet62

\* a string Decode accepts
Accepted(s) == Len(s) >= MinTokenLength /\ Len(s) <= MaxTokenLength /\ AllSymbols(s)

\* an accepted string without a leading "0"
Canonical(s) == Accepted(s) /\ s[1] # 48

\* 1 <= v <= 62^MaxTokenLength - 1
InRoundTripRange(v) == Less(Zero, v) /\ Less(v, Pow62[MaxTokenLength])

DecodeOps == {"Decode", "UnmarshalText"}

\* C1: a token v with 1 <= v <= 62^MaxTokenLength - 1 that is encoded and
\* whose encoding is then decoded comes back as v, with no error.
C1_RoundTrip ==
    [][(op = "Encode" /\ op' = "Decode" /\ took' # <<>> /\ InRoundTripRange(t))
         => (err' = Nil /\ t' = t)]_vars

C1_Witness ==
    /\ op = "Decode" /\ took = <<"Encode", "Token">> /\ err = Nil
    /\ t = Sub1(Pow62[MaxTokenLength])
    /\ Len(text) = MaxTokenLength

\* C2: a token that New returned, encoded and then decoded, comes back
\* unchanged and with no error.
C2_GeneratedRoundTrip ==
    [][(op = "Encode" /\ op' = "Decode" /\ took' = <<"Encode", "New">>)
         => (err' = Nil /\ t' = t)]_vars

\* C3: the error of a decode is fixed by the first violated check: too long,
\* then too short, then a byte outside the alphabet, else none; and the call
\* does not panic.
ExpectedErr(s) ==
    IF Len(s) > MaxTokenLength THEN ErrTokenTooBig
    ELSE IF Len(s) < MinTokenLength THEN ErrTokenTooSmall
    ELSE IF ~AllSymbols(s) THEN ErrInvalidCharacter
    ELSE Nil

C4_NoPartialValue ==
    [][/\ (op' = "Decode" /\ err' # Nil) => t' = Zero
       /\ (op' = "UnmarshalText" /\ err' # Nil) => t' = t]_vars

C4_Witness ==
    /\ op = "UnmarshalText" /\ err = ErrInvalidCharacter
    /\ Len(text) > 1 /\ text[Len(text)] = 32
    /\ AllSymbols(SubSeq(text, 1, Len(text) - 1)) /\ text[1] # 48
    /\ t = ExampleToken

C6_NewPanics ==
    op = "New" =>
        IF tokenLength = <<>> THEN panicked = Nil
        ELSE IF tokenLength[1] < MinTokenLength THEN panicked = ErrTokenTooSmall
        ELSE IF tokenLength[1] > MaxTokenLength THEN panicked = ErrTokenTooBig
        ELSE panicked = Nil

C6_Witness ==
    op = "New" /\ tokenLength = <<MaxTokenLength + 1>> /\ panicked = ErrTokenTooBig

\* C7: a token New(n) returns is below 62^n and encodes to at most n
\* characters, and New() can return what New(DefaultTokenLength) can.
C7_GenerationBound ==
    /\ New(<<>>) = New(<<DefaultTokenLength>>)
    /\ (op = "New" /\ panicked = Nil) =>
           LET n == IF tokenLength = <<>> THEN DefaultTokenLength ELSE tokenLength[1]
           IN  Less(t, Pow62[n]) /\ Len(Encode(t)) <= n

C7_Witness ==
    /\ op = "New" /\ panicked = Nil /\ tokenLength = <<MinTokenLength>>
    /\ t = Sub1(Pow62[MinTokenLength])

\* C8: a string of 1 to MaxTokenLength symbols that does not start with "0"
\* decodes without error, and the decoded token encodes to the same string.
C8_ReverseRoundTrip ==
    [][/\ (op' = "Decode" /\ Canonical(text')) => err' = Nil
       /\ (op = "Decode" /\ Canonical(text) /\ op' = "Encode") => text' = text]_vars

C8_Witness ==
    /\ op = "Encode" /\ took = <<"Decode">>
    /\ Len(text) = MaxTokenLength /\ text[1] = 49 /\ text[Len(text)] = 90

\* C9: Encode(0) is the empty string and the encoding of v > 0 is the
\* base-62 numeral of v without a leading "0"; the division loop ends after
\* at most MaxTokenLength + 1 digits for every 64-bit v.
C9_CanonicalNumeral ==
    op = "Encode" =>
        /\ t = Zero => text = <<>>
        /\ t # Zero => /\ text # <<>>
                       /\ AllSymbols(text)
                       /\ text[1] # 48
                       /\ NumeralValue(text) = t
        /\ Len(text) <= MaxTokenLength + 1

C9_Witness ==
    op = "Encode" /\ t = MaxUint64 /\ Len(text) = MaxTokenLength + 1

\* C10: MaxTokenLength is the largest n with 62^n <= 2^64 - 1, and a string
\* that decodes without error decodes to its exact base-62 value, which is
\* below 2^64.
C10_NoOverflow ==
    /\ LessEq(PowBig(base62Len, MaxTokenLength), MaxUint64)
    /\ ~LessEq(PowBig(base62Len, MaxTokenLength + 1), MaxUint64)
    /\ (op \in DecodeOps /\ err = Nil) =>
           /\ Less(NumeralValue(text), TwoTo64)
           /\ t = NumeralValue(text)

C10_Witness ==
    /\ op = "Decode" /\ err = Nil
    /\ text = Fill(90, MaxTokenLength)
    /\ t = Sub1(Pow62[MaxTokenLength])

\* x sorts strictly before y, both of one length, when bytes compare as
\* their images under key
SortsBefore(x, y, key(_)) ==
    \E i \in 1..Len(x) :
        /\ key(x[i]) < key(y[i])
        /\ \A j \in 1..(i - 1) : x[j] = y[j]

AsciiCode(c) == c

\* the sampled tokens above t whose encoding is as long as that of t
LongerSiblings == {b \in Values : Less(t, b) /\ Len(Encode(b)) = Len(text)}

\* C11 as stated: of two tokens a < b with encodings of one length, the
\* encoding of a sorts strictly before that of b in byte-wise (ASCII) order.
C11_AsciiSortable ==
    op = "Encode" =>
        \A b \in LongerSiblings : SortsBefore(text, Encode(b), AsciiCode)

\* C11 as amended: of two tokens a < b with encodings of one length, the
\* encoding of a sorts strictly before that of b when symbols compare by their
\* place in "0-9a-zA-Z" (digits, then lowercase, then uppercase).
C11_AlphabetSortable ==
    op = "Encode" =>
        \A b \in LongerSiblings : SortsBefore(text, Encode(b), DigitValue)

C11_Witness ==
    /\ op = "Encode" /\ text = <<97>>
    /\ \E b \in LongerSiblings : Encode(b) = <<65>>

\* C12: putting a "0" in front of an accepted string of fewer than
\* MaxTokenLength bytes gives a string that decodes without error to the same
\* token; "0" decodes to the token 0, whose encoding is the empty string,
\* which Decode rejects.
C12_LeadingZeros ==
    [][/\ ( /\ op = "Decode" /\ Accepted(text) /\ Len(text) < MaxTokenLength
            /\ op' = "Decode" /\ text' = <<48>> \o text )
          => (err = Nil /\ err' = Nil /\ t' = t)
       /\ (op' = "Decode" /\ text' = <<48>>) => (err' = Nil /\ t' = Zero)
       /\ (op' = "Encode" /\ t' = Zero) => text' = <<>>
       /\ (op' = "Decode" /\ text' = <<>>) => err' # Nil]_vars

C12_Witness ==
    /\ op = "Decode" /\ err = Nil
    /\ Len(text) = MaxTokenLength /\ text[1] = 48 /\ text[2] = 90
    /\ t = Sub1(Pow62[MaxTokenLength - 1])

====
